---- MODULE Spec2Model ----
(***************************************************************************)
(* Model of carbon_app.py, the HPC job carbon footprint estimator.         *)
(*                                                                         *)
(* Numbers are exact rationals <<n, d>> (d > 0, lowest terms); Python's    *)
(* None is the empty tuple.  The script is a Streamlit page: every change  *)
(* of a widget reruns it from the top, which the actions below follow      *)
(* section by section.                                                     *)
(***************************************************************************)
EXTENDS Integers, Sequences, FiniteSets

VARIABLES
    \* ---- the page (specification Spec) ----
    widgets,                      \* the sidebar widgets' current values
    pc,                           \* the section of the script about to run
    carbon_intensity_gco2e_kwh,   \* line 100 / 103
    error,                        \* the st.error message shown, or "none"
    calls,                        \* every call of calculate_carbon_impact of this run
    power_per_node_w,             \* line 120
    power_per_node_kw,            \* line 121
    total_energy_kwh,             \* line 124
    total_co2_kg,                 \* line 124
    metrics,                      \* the three st.metric values, or <<>>
    equivalencies,                \* <<km_driven, miles_driven, trees_years>>, or <<>>
    placeholder,                  \* the "Run a simulation ..." message is shown
    location_comparison_data,     \* line 164-171
    df_comparison,                \* line 174-175
    chart,                        \* the bar chart's x axis, left to right
    \* ---- direct calls of the helper (specification SpecEstimate) ----
    args,                         \* the five arguments of the latest call
    ret,                          \* what that call did
    prevArgs,                     \* the arguments of the call before it
    prevRet

pageVars == <<widgets, pc, carbon_intensity_gco2e_kwh, error, calls,
              power_per_node_w, power_per_node_kw, total_energy_kwh,
              total_co2_kg, metrics, equivalencies, placeholder,
              location_comparison_data, df_comparison, chart>>
callVars == <<args, ret, prevArgs, prevRet>>
vars == <<pageVars, callVars>>

----------------------------------------------------------------------------
(* Exact arithmetic *)

None == <<>>

Abs(x) == IF x < 0 THEN -x ELSE x

RECURSIVE GCD(_, _)
GCD(a, b) == IF b = 0 THEN a ELSE GCD(b, a % b)

\* The rational n/d in lowest terms with a positive denominator.
Rat(n, d) ==
    LET g == GCD(Abs(n), Abs(d))
        s == IF d < 0 THEN -1 ELSE 1
    IN  <<(s * n) \div g, (s * d) \div g>>

Num(n) == <<n, 1>>

\* Cross-cancelling keeps the intermediate products small.
RMul(x, y) ==
    LET g1 == GCD(Abs(x[1]), y[2])
        g2 == GCD(Abs(y[1]), x[2])
    IN  <<(x[1] \div g1) * (y[1] \div g2), (x[2] \div g2) * (y[2] \div g1)>>

RDiv(x, y) == RMul(x, Rat(y[2], y[1]))

RAdd(x, y) ==
    LET g == GCD(x[2], y[2])
    IN  Rat(x[1] * (y[2] \div g) + y[1] * (x[2] \div g), (x[2] \div g) * y[2])

RSub(x, y) == RAdd(x, <<-y[1], y[2]>>)

RLess(x, y) ==
    LET g == GCD(x[2], y[2])
    IN  x[1] * (y[2] \div g) < y[1] * (x[2] \div g)

RLeq(x, y) == ~RLess(y, x)

----------------------------------------------------------------------------
(* Configuration & Data *)

LOCATION_CARBON_INTENSITY ==
    << <<"Iceland (Hydro/Geo)", Num(10)>>,
       <<"Norway (Hydro)", Num(15)>>,
       <<"Sweden (Hydro/Nuclear/Wind)", Num(25)>>,
       <<"France (Nuclear)", Num(55)>>,
       <<"Ontario, Canada (Nuclear/Hydro)", Num(30)>>,
       <<"Quebec, Canada (Hydro)", Num(5)>>,
       <<"UK (Mixed, increasing Renewables)", Num(210)>>,
       <<"California, USA (Mixed, high Solar)", Num(230)>>,
       <<"Germany (Mixed, Coal phase-out)", Num(380)>>,
       <<"US Average (Mixed)", Num(390)>>,
       <<"Texas, USA (Mixed, high Wind/Gas)", Num(400)>>,
       <<"China Average (Mixed, high Coal)", Num(540)>>,
       <<"India (Mixed, high Coal)", Num(650)>>,
       <<"Australia (Mixed, high Coal/Gas)", Num(600)>>,
       <<"Poland (Coal Dominant)", Num(750)>>,
       <<"Custom", None>> >>

\* LOCATION_CARBON_INTENSITY[loc]
Intensity(loc) ==
    LET i == CHOOSE j \in DOMAIN LOCATION_CARBON_INTENSITY :
                 LOCATION_CARBON_INTENSITY[j][1] = loc
    IN  LOCATION_CARBON_INTENSITY[i][2]

\* list(LOCATION_CARBON_INTENSITY.keys())
location_options ==
    [i \in DOMAIN LOCATION_CARBON_INTENSITY |-> LOCATION_CARBON_INTENSITY[i][1]]

KM_PER_KG_CO2E == RDiv(Num(1), Rat(175, 1000))

TREES_PER_TONNE_CO2E_PER_YEAR == 45

MILES_PER_KM == Rat(621371, 1000000)

----------------------------------------------------------------------------
(* Helper Functions *)

\* Python's  x < 0 : a TypeError when x is None.
PyLessZero(x) ==
    IF x = None THEN "TypeError"
    ELSE IF RLess(x, Num(0)) THEN "True" ELSE "False"

\* None in [a, b, c, d, e]
NoneIn(list) == \E i \in DOMAIN list : list[i] = None

\* Mutant: the two operands of `or` the other way round.
InvalidInputsSwapped(list) ==
    LET lt == PyLessZero(list[5])
    IN  IF lt = "False" THEN (IF NoneIn(list) THEN "True" ELSE "False") ELSE lt

\* The condition of line 44; `or` evaluates its right operand only when the
\* left one is false.
InvalidInputs(list) ==
    IF NoneIn(list) THEN "True" ELSE PyLessZero(list[5])

\* Mutant: the bare node energy is returned in place of the datacentre energy.
EstimateNodeEnergy(num_nodes, job_duration_h, kw, pue, intensity) ==
    LET total_node_energy_kwh == RMul(RMul(num_nodes, kw), job_duration_h)
        total_dc_energy_kwh == RMul(total_node_energy_kwh, pue)
        total_co2_g == RMul(total_dc_energy_kwh, intensity)
    IN  <<total_node_energy_kwh, RDiv(total_co2_g, Num(1000))>>

\* Mutant: the PUE divides the node energy.
EstimateDividedByPue(num_nodes, job_duration_h, kw, pue, intensity) ==
    LET total_node_energy_kwh == RMul(RMul(num_nodes, kw), job_duration_h)
        total_dc_energy_kwh ==
            IF pue[1] = 0 THEN Num(0) ELSE RDiv(total_node_energy_kwh, pue)
        total_co2_g == RMul(total_dc_energy_kwh, intensity)
    IN  <<total_dc_energy_kwh, RDiv(total_co2_g, Num(1000))>>

\* Lines 47-57: the arithmetic, for valid inputs.
Estimate(num_nodes, job_duration_h, kw, pue, intensity) ==
    LET total_node_energy_kwh == RMul(RMul(num_nodes, kw), job_duration_h)
        total_dc_energy_kwh == RMul(total_node_energy_kwh, pue)
        total_co2_g == RMul(total_dc_energy_kwh, intensity)
        total_co2_kg_ == RDiv(total_co2_g, Num(1000))
    IN  <<total_dc_energy_kwh, total_co2_kg_>>

\* What a call does: it returns a pair, or raises.
calculate_carbon_impact(num_nodes, job_duration_h, kw, pue, intensity) ==
    LET invalid == InvalidInputs(<<num_nodes, job_duration_h, kw, pue, intensity>>)
    IN  CASE invalid = "TypeError" -> [kind |-> "raise", val |-> <<>>]
          [] invalid = "True"      -> [kind |-> "return", val |-> <<Num(0), Num(0)>>]
          [] OTHER -> [kind |-> "return",
                       val |-> Estimate(num_nodes, job_duration_h, kw, pue, intensity)]

----------------------------------------------------------------------------
(* Sidebar Inputs: the values a widget can hold *)

MaxNodeSteps == 0       \* clicks of "+" on the node count from its minimum
MaxCustomSteps == 0     \* clicks of "+" on the custom intensity from its minimum

\* st.number_input / st.slider arguments
NUM_NODES      == [min_value |-> 1, value |-> 100, step |-> 10]
JOB_DURATION_H == [min_value |-> Rat(1, 10), value |-> Num(24), step |-> Num(1)]
AVG_UTILIZATION == [min_value |-> 0, max_value |-> 100, value |-> 75, step |-> 5]
POWER_IDLE_W   == [min_value |-> 10, value |-> 150, step |-> 10]
POWER_PEAK_W   == [min_value |-> 50, value |-> 600, step |-> 10]
PUE            == [min_value |-> Num(1), max_value |-> Num(3),
                   value |-> Rat(3, 2), step |-> Rat(5, 100)]
CUSTOM_INTENSITY == [min_value |-> 0, value |-> 400, step |-> 5]
DEFAULT_LOCATION == "UK (Mixed, increasing Renewables)"

NumNodesChoices ==
    {NUM_NODES.min_value + k * NUM_NODES.step : k \in 0..MaxNodeSteps}
        \cup {NUM_NODES.value}
DurationChoices == {JOB_DURATION_H.min_value, JOB_DURATION_H.value}
UtilizationChoices ==
    {AVG_UTILIZATION.min_value, AVG_UTILIZATION.value, AVG_UTILIZATION.max_value}
\* Each power field also takes the other field's default, typed in.
IdleChoices == {POWER_IDLE_W.min_value, POWER_IDLE_W.value, POWER_PEAK_W.value}
PeakChoices == {POWER_PEAK_W.min_value, POWER_PEAK_W.value, POWER_IDLE_W.value}
PueChoices == {PUE.min_value, PUE.value, PUE.max_value}
LocationChoices == {location_options[i] : i \in DOMAIN location_options}
CustomChoices ==
    {CUSTOM_INTENSITY.min_value + k * CUSTOM_INTENSITY.step : k \in 0..MaxCustomSteps}
        \cup {CUSTOM_INTENSITY.value}

DefaultWidgets ==
    [num_nodes |-> NUM_NODES.value,
     job_duration_h |-> JOB_DURATION_H.value,
     avg_utilization |-> AVG_UTILIZATION.value,
     power_idle_w |-> POWER_IDLE_W.value,
     power_peak_w |-> POWER_PEAK_W.value,
     pue |-> PUE.value,
     selected_location_option |-> DEFAULT_LOCATION,
     custom_intensity |-> CUSTOM_INTENSITY.value]

\* The widget states one user edit leads to.  The custom intensity field exists
\* only while "Custom" is selected, and comes back with its default.
Edits(w) ==
    {[w EXCEPT !.num_nodes = v] : v \in NumNodesChoices}
    \cup {[w EXCEPT !.job_duration_h = v] : v \in DurationChoices}
    \cup {[w EXCEPT !.avg_utilization = v] : v \in UtilizationChoices}
    \cup {[w EXCEPT !.power_idle_w = v] : v \in IdleChoices}
    \cup {[w EXCEPT !.power_peak_w = v] : v \in PeakChoices}
    \cup {[w EXCEPT !.pue = v] : v \in PueChoices}
    \cup {[w EXCEPT !.selected_location_option = v,
                    !.custom_intensity = CUSTOM_INTENSITY.value] :
              v \in LocationChoices}
    \cup (IF w.selected_location_option = "Custom"
          THEN {[w EXCEPT !.custom_intensity = v] : v \in CustomChoices}
          ELSE {})

----------------------------------------------------------------------------
(* The script's own computations *)

\* Mutant: the table's entry is used even when "Custom" is selected.
SelectedIntensityNoCustom(w) == Intensity(w.selected_location_option)

\* Lines 100-106
SelectedIntensity(w) ==
    IF w.selected_location_option = "Custom"
    THEN Num(w.custom_intensity)
    ELSE Intensity(w.selected_location_option)

\* Mutant: the comparison of the two powers is the other way round.
ValidateInputsFlipped(idle, peak, intensity) ==
    IF idle < peak
    THEN "Idle power cannot be greater than peak power."
    ELSE IF intensity = None \/ RLess(intensity, Num(0))
    THEN "Please select a valid location or enter a non-negative custom carbon intensity."
    ELSE "none"

\* Lines 108-114: the message of the st.error that stops the run, or "none".
ValidateInputs(idle, peak, intensity) ==
    IF idle > peak
    THEN "Idle power cannot be greater than peak power."
    ELSE IF intensity = None \/ RLess(intensity, Num(0))
    THEN "Please select a valid location or enter a non-negative custom carbon intensity."
    ELSE "none"

\* Mutant: the utilisation is taken as a fraction of 1000.
PowerPerNodeWPerMille(idle, peak, utilization) ==
    RAdd(Num(idle), RMul(Num(peak - idle), RDiv(Num(utilization), Num(1000))))

\* Line 120
PowerPerNodeW(idle, peak, utilization) ==
    RAdd(Num(idle), RMul(Num(peak - idle), RDiv(Num(utilization), Num(100))))

\* Line 121
PowerPerNodeKw(w) == RDiv(w, Num(1000))

\* Mutant: equivalencies are shown for zero emissions too.
ShowEquivalenciesAlways(co2) == RLeq(Num(0), co2)

\* Line 143
ShowEquivalencies(co2) == RLess(Num(0), co2)

\* Lines 144-147.  miles_driven is kept as the pair <<km_driven, MILES_PER_KM>>
\* of its two factors: their product's numerator does not fit TLC's 32-bit
\* integers.
Equivalencies(co2) ==
    LET km_driven == RMul(co2, KM_PER_KG_CO2E)
        miles_driven == <<km_driven, MILES_PER_KM>>
        total_co2_tonnes == RDiv(co2, Num(1000))
        trees_years == RMul(total_co2_tonnes, Num(TREES_PER_TONNE_CO2E_PER_YEAR))
    IN  <<km_driven, miles_driven, trees_years>>

\* Mutant: every entry of the table is kept.
ValidLocationsAll == LOCATION_CARBON_INTENSITY

\* Line 165
valid_locations ==
    SelectSeq(LOCATION_CARBON_INTENSITY,
              LAMBDA e : e[1] # "Custom" /\ e[2] # None)

\* Lines 167-171: one row and one call per valid location, in the table's order.
ComparisonCall(w, kw, e) ==
    [args |-> <<Num(w.num_nodes), w.job_duration_h, kw, w.pue, e[2]>>,
     ret |-> calculate_carbon_impact(Num(w.num_nodes), w.job_duration_h, kw, w.pue, e[2])]

\* df.sort_values(..., ascending=True): insertion into an ascending sequence.
RECURSIVE InsertAscending(_, _)
InsertAscending(sorted, row) ==
    IF sorted = <<>> THEN <<row>>
    ELSE IF RLess(row.Emissions, Head(sorted).Emissions)
    THEN <<row>> \o sorted
    ELSE <<Head(sorted)>> \o InsertAscending(Tail(sorted), row)

RECURSIVE SortValuesAscending(_)
SortValuesAscending(rows) ==
    IF rows = <<>> THEN <<>>
    ELSE InsertAscending(SortValuesAscending(SubSeq(rows, 1, Len(rows) - 1)),
                         rows[Len(rows)])

Reverse(s) == [i \in DOMAIN s |-> s[Len(s) + 1 - i]]

\* px.bar(df, x="Location", ...) followed by
\* update_layout(xaxis={'categoryorder': 'total descending'}): the categories of
\* the x axis are laid out by their bar's total, largest first, whatever the
\* order of the frame's rows.
CategoryOrderTotalDescending(df) ==
    LET byTotal == Reverse(SortValuesAscending(df))
    IN  [i \in DOMAIN byTotal |-> byTotal[i].Location]

----------------------------------------------------------------------------
(* The page: one run of the script per edit of a widget *)

Blank ==
    /\ carbon_intensity_gco2e_kwh = None
    /\ error = "none"
    /\ calls = <<>>
    /\ power_per_node_w = None
    /\ power_per_node_kw = None
    /\ total_energy_kwh = None
    /\ total_co2_kg = None
    /\ metrics = <<>>
    /\ equivalencies = <<>>
    /\ placeholder = FALSE
    /\ location_comparison_data = <<>>
    /\ df_comparison = <<>>
    /\ chart = <<>>

\* Direct calls start from the page's first call with the default widgets.
DefaultArgs ==
    <<Num(NUM_NODES.value), JOB_DURATION_H.value,
      PowerPerNodeKw(PowerPerNodeW(POWER_IDLE_W.value, POWER_PEAK_W.value,
                                   AVG_UTILIZATION.value)),
      PUE.value, Intensity(DEFAULT_LOCATION)>>

Apply(a) == calculate_carbon_impact(a[1], a[2], a[3], a[4], a[5])

CallsIdle ==
    /\ args = DefaultArgs
    /\ ret = Apply(DefaultArgs)
    /\ prevArgs = DefaultArgs
    /\ prevRet = Apply(DefaultArgs)

Init ==
    /\ widgets = DefaultWidgets
    /\ pc = "sidebar"
    /\ Blank
    /\ CallsIdle

\* The user edits a widget: Streamlit clears the page and reruns the script.
Rerun ==
    /\ pc \in {"done", "stopped"}
    /\ \E w \in Edits(widgets) : widgets' = w
    /\ pc' = "sidebar"
    /\ carbon_intensity_gco2e_kwh' = None
    /\ error' = "none"
    /\ calls' = <<>>
    /\ power_per_node_w' = None
    /\ power_per_node_kw' = None
    /\ total_energy_kwh' = None
    /\ total_co2_kg' = None
    /\ metrics' = <<>>
    /\ equivalencies' = <<>>
    /\ placeholder' = FALSE
    /\ location_comparison_data' = <<>>
    /\ df_comparison' = <<>>
    /\ chart' = <<>>
    /\ UNCHANGED callVars

\* Lines 78-114: the sidebar, ending in the validation; st.stop() ends the run.
Sidebar ==
    /\ pc = "sidebar"
    /\ LET intensity == SelectedIntensity(widgets)
           msg == ValidateInputs(widgets.power_idle_w, widgets.power_peak_w, intensity)
       IN  /\ carbon_intensity_gco2e_kwh' = intensity
           /\ error' = msg
           /\ pc' = IF msg = "none" THEN "main" ELSE "stopped"
    /\ UNCHANGED <<widgets, calls, power_per_node_w, power_per_node_kw,
                   total_energy_kwh, total_co2_kg, metrics, equivalencies,
                   placeholder, location_comparison_data, df_comparison, chart,
                   callVars>>

\* Lines 117-138: the node power, the estimate for the selected location, the
\* three metrics.  An exception raised by the helper ends the run.
Calculate ==
    /\ pc = "main"
    /\ LET w == PowerPerNodeW(widgets.power_idle_w, widgets.power_peak_w,
                              widgets.avg_utilization)
           kw == PowerPerNodeKw(w)
           a == <<Num(widgets.num_nodes), widgets.job_duration_h, kw,
                  widgets.pue, carbon_intensity_gco2e_kwh>>
           r == Apply(a)
       IN  /\ power_per_node_w' = w
           /\ power_per_node_kw' = kw
           /\ calls' = Append(calls, [args |-> a, ret |-> r])
           /\ IF r.kind = "raise"
              THEN /\ pc' = "crashed"
                   /\ UNCHANGED <<total_energy_kwh, total_co2_kg, metrics>>
              ELSE /\ pc' = "equivalencies"
                   /\ total_energy_kwh' = r.val[1]
                   /\ total_co2_kg' = r.val[2]
                   /\ metrics' = <<w, r.val[1], r.val[2]>>
    /\ UNCHANGED <<widgets, carbon_intensity_gco2e_kwh, error, equivalencies,
                   placeholder, location_comparison_data, df_comparison, chart,
                   callVars>>

\* Lines 141-155
DisplayEquivalencies ==
    /\ pc = "equivalencies"
    /\ IF ShowEquivalencies(total_co2_kg)
       THEN /\ equivalencies' = Equivalencies(total_co2_kg)
            /\ placeholder' = FALSE
       ELSE /\ equivalencies' = <<>>
            /\ placeholder' = TRUE
    /\ pc' = "comparison"
    /\ UNCHANGED <<widgets, carbon_intensity_gco2e_kwh, error, calls,
                   power_per_node_w, power_per_node_kw, total_energy_kwh,
                   total_co2_kg, metrics, location_comparison_data,
                   df_comparison, chart, callVars>>

\* Lines 157-191: the comparison's rows, the sorted frame, the chart.
LocationComparison ==
    /\ pc = "comparison"
    /\ LET locs == valid_locations
           made == [i \in DOMAIN locs |-> ComparisonCall(widgets, power_per_node_kw, locs[i])]
           rows == [i \in DOMAIN locs |->
                       [Location |-> locs[i][1], Intensity |-> locs[i][2],
                        Emissions |-> made[i].ret.val[2]]]
       IN  IF \E i \in DOMAIN made : made[i].ret.kind = "raise"
           THEN /\ pc' = "crashed"
                /\ calls' = calls \o made
                /\ UNCHANGED <<location_comparison_data, df_comparison, chart>>
           ELSE /\ pc' = "done"
                /\ calls' = calls \o made
                /\ location_comparison_data' = rows
                /\ IF rows # <<>>
                   THEN LET df == SortValuesAscending(rows)
                        IN  /\ df_comparison' = df
                            /\ chart' = CategoryOrderTotalDescending(df)
                   ELSE UNCHANGED <<df_comparison, chart>>
    /\ UNCHANGED <<widgets, carbon_intensity_gco2e_kwh, error, power_per_node_w,
                   power_per_node_kw, total_energy_kwh, total_co2_kg, metrics,
                   equivalencies, placeholder, callVars>>

Next == Rerun \/ Sidebar \/ Calculate \/ DisplayEquivalencies \/ LocationComparison

Spec == Init /\ [][Next]_vars

----------------------------------------------------------------------------
(* Direct calls of calculate_carbon_impact, one argument changed per call *)

NodeArgs == {None, Num(-1), Num(0)} \cup {Num(n) : n \in NumNodesChoices}
DurationArgs == {None, Num(0)} \cup DurationChoices
PowerArgs == {None, Num(0), Rat(4125, 10000), DefaultArgs[3]}
PueArgs == {None, Num(0), PUE.min_value, PUE.value}
IntensityArgs ==
    {None, Num(-1), Intensity("Quebec, Canada (Hydro)"), Intensity(DEFAULT_LOCATION),
     Intensity("Poland (Coal Dominant)")} \cup {Num(c) : c \in CustomChoices}

ArgChoices == <<NodeArgs, DurationArgs, PowerArgs, PueArgs, IntensityArgs>>

CallEstimate ==
    /\ \E i \in 1..5 : \E v \in ArgChoices[i] :
          /\ v # args[i]
          /\ args' = [args EXCEPT ![i] = v]
          /\ ret' = Apply([args EXCEPT ![i] = v])
    /\ prevArgs' = args
    /\ prevRet' = ret
    /\ UNCHANGED pageVars

SpecEstimate == Init /\ [][CallEstimate]_vars

----------------------------------------------------------------------------
(* Properties of calculate_carbon_impact (SpecEstimate) *)

Present(a) == ~NoneIn(a)
NonNegative(a) == Present(a) /\ \A i \in DOMAIN a : RLeq(Num(0), a[i])
Returned(r, e, c) == r = [kind |-> "return", val |-> <<e, c>>]

\* n * p * h * pue and that times the intensity over 1000, associated from the
\* right, unlike the code.
ExpectedEnergy(a) == RMul(a[1], RMul(a[3], RMul(a[2], a[4])))
ExpectedCo2Kg(a) == RMul(ExpectedEnergy(a), RMul(a[5], Rat(1, 1000)))

\* C1: with all five arguments present and carbon_intensity >= 0 the call
\* returns exactly (n*p*h*pue, n*p*h*pue*intensity/1000): the datacentre energy
\* including PUE, and kilograms.
C1_ExactProduct ==
    (Present(args) /\ RLeq(Num(0), args[5]))
        => Returned(ret, ExpectedEnergy(args), ExpectedCo2Kg(args))

C1_Witness ==
    /\ Present(args)
    /\ RLess(Num(1), args[4])
    /\ RLess(Num(0), args[5])
    /\ ret.kind = "return"
    /\ RLess(Num(0), ret.val[2])
    /\ RLess(ret.val[2], ret.val[1])

\* C2: with any argument missing, or a negative carbon_intensity, the call
\* returns (0, 0) and does not raise, whatever the other arguments are.
C2_SafeZero ==
    (NoneIn(args) \/ RLess(args[5], Num(0))) => Returned(ret, Num(0), Num(0))

\* carbon_intensity itself missing, together with another argument.
C2_Witness ==
    /\ args[5] = None
    /\ args[1] = None
    /\ args[3] # None
    /\ Returned(ret, Num(0), Num(0))

\* C6 as stated: power_per_node_kw = 0.4125 gives 1755.0 kWh and 368.55 kg.
C6_AsStated ==
    args = <<Num(100), Num(24), Rat(4125, 10000), Rat(3, 2), Num(210)>>
        => Returned(ret, Num(1755), Rat(36855, 100))

\* C6, amended: power_per_node_kw = 0.4875, which is what idle 150 W, peak
\* 600 W and utilisation 75% give (487.5 W), with 100 nodes, 24 h, PUE 1.5 and
\* intensity 210 gives 1755.0 kWh and 368.55 kg.
C6_WorkedExample ==
    /\ PowerPerNodeW(150, 600, 75) = Rat(4875, 10)
    /\ PowerPerNodeKw(PowerPerNodeW(150, 600, 75)) = Rat(4875, 10000)
    /\ args = <<Num(100), Num(24), Rat(4875, 10000), Rat(3, 2), Num(210)>>
           => Returned(ret, Num(1755), Rat(36855, 100))

C6_Witness ==
    /\ args = <<Num(100), Num(24), Rat(4875, 10000), Rat(3, 2), Num(210)>>
    /\ prevArgs # args
    /\ ret.kind = "return"

\* C7: among non-negative arguments, raising one argument and keeping the other
\* four never lowers either component of the result.
C7_Monotone ==
    (/\ NonNegative(prevArgs)
     /\ NonNegative(args)
     /\ \A i \in 1..5 : RLeq(prevArgs[i], args[i]))
        => /\ prevRet.kind = "return"
           /\ ret.kind = "return"
           /\ RLeq(prevRet.val[1], ret.val[1])
           /\ RLeq(prevRet.val[2], ret.val[2])

\* The PUE raised, and both components with it.
C7_Witness ==
    /\ NonNegative(prevArgs)
    /\ NonNegative(args)
    /\ RLess(prevArgs[4], args[4])
    /\ \A i \in {1, 2, 3, 5} : prevArgs[i] = args[i]
    /\ RLess(prevRet.val[1], ret.val[1])
    /\ RLess(prevRet.val[2], ret.val[2])

----------------------------------------------------------------------------
(* Properties of the page (Spec) *)

INTENSITY_ERROR ==
    "Please select a valid location or enter a non-negative custom carbon intensity."

NothingProduced ==
    /\ calls = <<>>
    /\ power_per_node_w = None
    /\ total_energy_kwh = None
    /\ total_co2_kg = None
    /\ metrics = <<>>
    /\ equivalencies = <<>>
    /\ ~placeholder
    /\ location_comparison_data = <<>>
    /\ df_comparison = <<>>
    /\ chart = <<>>

GateFails ==
    \/ widgets.power_idle_w > widgets.power_peak_w
    \/ carbon_intensity_gco2e_kwh = None
    \/ RLess(carbon_intensity_gco2e_kwh, Num(0))

\* C3: once the sidebar has run, the run is stopped exactly when idle power
\* exceeds peak power or the intensity is undefined or negative; a stopped run
\* shows an error, has called the estimate not once and has produced no metric,
\* equivalency or comparison.
C3_ValidationGate ==
    pc # "sidebar" =>
        /\ GateFails <=> pc = "stopped"
        /\ pc = "stopped" => (error # "none" /\ NothingProduced)
        /\ pc # "stopped" => error = "none"

C3_Witness ==
    /\ pc = "stopped"
    /\ widgets.power_idle_w = 600
    /\ widgets.power_peak_w = 150
    /\ error = "Idle power cannot be greater than peak power."

RowsFor(loc) == {i \in DOMAIN location_comparison_data :
                    location_comparison_data[i].Location = loc}

\* C4: a finished run's comparison data holds exactly one row for every entry
\* of the table other than "Custom" and none for "Custom"; the row carries the
\* table's intensity and the second component of the estimate made with the
\* selected location's node count, duration, node power and PUE and that
\* intensity.
C4_ComparisonRows ==
    pc = "done" =>
        /\ RowsFor("Custom") = {}
        /\ Len(location_comparison_data) = Len(LOCATION_CARBON_INTENSITY) - 1
        /\ \A j \in DOMAIN LOCATION_CARBON_INTENSITY :
              LET e == LOCATION_CARBON_INTENSITY[j]
              IN  e[1] # "Custom" =>
                    /\ Cardinality(RowsFor(e[1])) = 1
                    /\ \A i \in RowsFor(e[1]) :
                          LET row == location_comparison_data[i]
                              a == [calls[1].args EXCEPT ![5] = e[2]]
                          IN  /\ row.Intensity = e[2]
                              /\ row.Emissions = Apply(a).val[2]
                              /\ row.Emissions = ExpectedCo2Kg(a)

C4_Witness ==
    /\ pc = "done"
    /\ widgets.selected_location_option = "Custom"
    /\ Len(location_comparison_data) = 15
    /\ \E i \in DOMAIN location_comparison_data :
          /\ location_comparison_data[i].Location = "Poland (Coal Dominant)"
          /\ RLess(total_co2_kg, location_comparison_data[i].Emissions)

EmissionsOf(loc) ==
    LET i == CHOOSE j \in DOMAIN location_comparison_data :
                 location_comparison_data[j].Location = loc
    IN  location_comparison_data[i].Emissions

PositionOf(loc) == CHOOSE i \in DOMAIN chart : chart[i] = loc

\* C5: the order in which a finished run displays the locations is
\* non-decreasing in their estimated emissions, and "Quebec, Canada (Hydro)"
\* comes before "Poland (Coal Dominant)".
C5_DisplayedAscending ==
    pc = "done" =>
        /\ \A i, j \in DOMAIN chart :
              i < j => RLeq(EmissionsOf(chart[i]), EmissionsOf(chart[j]))
        /\ PositionOf("Quebec, Canada (Hydro)") < PositionOf("Poland (Coal Dominant)")

\* The frame handed to the chart is in ascending order (line 175).
DfComparisonAscending ==
    pc = "done" =>
        \A i, j \in DOMAIN df_comparison :
            i < j => RLeq(df_comparison[i].Emissions, df_comparison[j].Emissions)

\* C8: the node power is idle + (peak - idle) * utilisation / 100: idle at 0%,
\* peak at 100%, linear in between; the estimate is called with that power in
\* watts over 1000.
C8_Interpolation ==
    pc \in {"equivalencies", "comparison", "done"} =>
        LET idle == widgets.power_idle_w
            peak == widgets.power_peak_w
            u == widgets.avg_utilization
            w == power_per_node_w
            kw == calls[1].args[3]
        IN  /\ w[1] * 100 = w[2] * (idle * 100 + (peak - idle) * u)
            /\ u = 0 => w = Num(idle)
            /\ u = 100 => w = Num(peak)
            /\ kw[1] * (1000 * w[2]) = w[1] * kw[2]
            /\ \A i \in DOMAIN calls : calls[i].args[3] = kw

C8_Witness ==
    /\ pc = "done"
    /\ widgets.avg_utilization = 75
    /\ widgets.power_idle_w < widgets.power_peak_w
    /\ RLess(Num(widgets.power_idle_w), power_per_node_w)
    /\ RLess(power_per_node_w, Num(widgets.power_peak_w))
    /\ Len(calls) = 16

\* C9: every call the page makes has its five arguments present, a
\* non-negative intensity and a node power between idle/1000 and peak/1000, so
\* no call takes the (0, 0) branch; and the intensity error is never shown.
C9_CallsAreValid ==
    /\ error # INTENSITY_ERROR
    /\ \A i \in DOMAIN calls :
          LET a == calls[i].args
          IN  /\ Present(a)
              /\ RLeq(Num(0), a[5])
              /\ RLeq(Rat(widgets.power_idle_w, 1000), a[3])
              /\ RLeq(a[3], Rat(widgets.power_peak_w, 1000))
              /\ InvalidInputs(a) = "False"
              /\ calls[i].ret.kind = "return"

C9_Witness ==
    /\ pc = "done"
    /\ widgets.selected_location_option = "Custom"
    /\ carbon_intensity_gco2e_kwh = Num(0)
    /\ Len(calls) = 16

\* C10: once the equivalencies section has run, the three equivalencies
\* (km = co2/0.175, miles = km * 0.621371, tree-years = co2/1000 * 45) are
\* shown exactly when the selected location's co2_kg is above 0; otherwise the
\* placeholder is shown, and the metrics and the comparison are produced all
\* the same.
C10_Equivalencies ==
    pc \in {"comparison", "done"} =>
        /\ equivalencies # <<>> <=> RLess(Num(0), total_co2_kg)
        /\ placeholder <=> equivalencies = <<>>
        /\ equivalencies # <<>> =>
              /\ RMul(equivalencies[1], Rat(175, 1000)) = total_co2_kg
              /\ equivalencies[2] = <<equivalencies[1], Rat(621371, 1000000)>>
              /\ RMul(equivalencies[3], Num(1000)) = RMul(total_co2_kg, Num(45))
        /\ metrics = <<power_per_node_w, total_energy_kwh, total_co2_kg>>
        /\ pc = "done" => (Len(location_comparison_data) = 15 /\ Len(chart) = 15)

C10_Witness ==
    /\ pc = "done"
    /\ total_co2_kg = Num(0)
    /\ RLess(Num(0), total_energy_kwh)
    /\ placeholder
    /\ equivalencies = <<>>
    /\ Len(location_comparison_data) = 15

====
